---------------------------- MODULE Spec2Model ----------------------------
(***************************************************************************)
(* A model of the voice-secretary webhook: the time normalizer, the        *)
(* availability and booking engines, the tool-call batch webhook and the   *)
(* conversation orchestrator, over a remote calendar and a remote LLM.     *)
(*                                                                         *)
(* JavaScript runs a handler without interruption between two awaits, so   *)
(* one action is one such stretch: from the arrival of a request, or from  *)
(* the resolution of a remote call, to the next await or to the response.  *)
(***************************************************************************)
EXTENDS Integers, Sequences, FiniteSets, TLC

(***************************************************************************)
(* Text.  A JavaScript string is a sequence of one-character strings; the  *)
(* value undefined is a token that is no string.                           *)
(***************************************************************************)
Undefined == <<"undefined">>

IsString(v) == v # Undefined

Digit == {"0", "1", "2", "3", "4", "5", "6", "7", "8", "9"}

DigitValue(c) ==
  CASE c = "0" -> 0 [] c = "1" -> 1 [] c = "2" -> 2 [] c = "3" -> 3
    [] c = "4" -> 4 [] c = "5" -> 5 [] c = "6" -> 6 [] c = "7" -> 7
    [] c = "8" -> 8 [] c = "9" -> 9

DigitChar(n) ==
  CASE n = 0 -> "0" [] n = 1 -> "1" [] n = 2 -> "2" [] n = 3 -> "3"
    [] n = 4 -> "4" [] n = 5 -> "5" [] n = 6 -> "6" [] n = 7 -> "7"
    [] n = 8 -> "8" [] n = 9 -> "9"

\* \d at position i of s
IsDigitAt(s, i) == i >= 1 /\ i <= Len(s) /\ s[i] \in Digit

\* \s at position i of s
IsSpaceAt(s, i) == i >= 1 /\ i <= Len(s) /\ s[i] = " "

IsCharAt(s, i, cs) == i >= 1 /\ i <= Len(s) /\ s[i] \in cs

\* parseInt of a run of digits
RECURSIVE parseInt(_)
parseInt(ds) ==
  IF Len(ds) = 0 THEN 0
  ELSE 10 * parseInt(SubSeq(ds, 1, Len(ds) - 1)) + DigitValue(ds[Len(ds)])

\* Number.prototype.toString of a natural number
RECURSIVE toString(_)
toString(n) ==
  IF n < 10 THEN <<DigitChar(n)>>
  ELSE Append(toString(n \div 10), DigitChar(n % 10))

\* String.prototype.padStart(width, '0')
RECURSIVE padStart(_, _)
padStart(s, width) ==
  IF Len(s) >= width THEN s ELSE padStart(<<"0">> \o s, width)

(***************************************************************************)
(* The two regular expressions of the time normalizer.  A match is a       *)
(* record of its capture groups; NoMatch is the null of String.match.      *)
(***************************************************************************)
NoMatch == [matched |-> FALSE, g1 |-> <<>>, g2 |-> <<>>, g3 |-> <<>>]

\* /^(\d{1,2}):(\d{2})$/
hhmmMatch(time) ==
  IF /\ Len(time) = 5
     /\ IsDigitAt(time, 1) /\ IsDigitAt(time, 2) /\ time[3] = ":"
     /\ IsDigitAt(time, 4) /\ IsDigitAt(time, 5)
  THEN [matched |-> TRUE, g1 |-> SubSeq(time, 1, 2), g2 |-> SubSeq(time, 4, 5),
        g3 |-> <<>>]
  ELSE IF /\ Len(time) = 4
          /\ IsDigitAt(time, 1) /\ time[2] = ":"
          /\ IsDigitAt(time, 3) /\ IsDigitAt(time, 4)
  THEN [matched |-> TRUE, g1 |-> SubSeq(time, 1, 1), g2 |-> SubSeq(time, 3, 4),
        g3 |-> <<>>]
  ELSE NoMatch

\* The end of the longest run of \s that starts at position i.
RECURSIVE SkipSpaces(_, _)
SkipSpaces(s, i) == IF IsSpaceAt(s, i) THEN SkipSpaces(s, i + 1) ELSE i

\* One way of matching (\d{1,2}):?(\d{2})?\s*(AM|PM) with the i flag at
\* position i: nd digits of hour, the colon taken or not, the two digits of
\* minutes taken or not, the minutes (if any) at position m and the suffix,
\* after the longest run of \s, at position p.
AmPmGroups(s, i, nd, colon, mins, m, p) ==
  IF /\ \A k \in i .. (i + nd - 1) : IsDigitAt(s, k)
     /\ colon => IsCharAt(s, i + nd, {":"})
     /\ mins => (IsDigitAt(s, m) /\ IsDigitAt(s, m + 1))
     /\ IsCharAt(s, p, {"A", "a", "P", "p"})
     /\ IsCharAt(s, p + 1, {"M", "m"})
  THEN [matched |-> TRUE,
        g1 |-> SubSeq(s, i, i + nd - 1),
        g2 |-> IF mins THEN SubSeq(s, m, m + 1) ELSE <<>>,
        g3 |-> SubSeq(s, p, p + 1)]
  ELSE NoMatch

AmPmTry(s, i, nd, colon, mins) ==
  AmPmGroups(s, i, nd, colon, mins,
             i + nd + (IF colon THEN 1 ELSE 0),
             SkipSpaces(s, i + nd + (IF colon THEN 1 ELSE 0) + (IF mins THEN 2 ELSE 0)))

\* The order in which a backtracking matcher tries the greedy quantifiers.
AmPmOrder ==
  << <<2, TRUE, TRUE>>, <<2, TRUE, FALSE>>, <<2, FALSE, TRUE>>, <<2, FALSE, FALSE>>,
     <<1, TRUE, TRUE>>, <<1, TRUE, FALSE>>, <<1, FALSE, TRUE>>, <<1, FALSE, FALSE>> >>

\* The first way, from the k-th on, that matches at position i.
RECURSIVE AmPmAt(_, _, _)
AmPmElse(m, s, i, k) == IF m.matched THEN m ELSE AmPmAt(s, i, k + 1)

AmPmAt(s, i, k) ==
  IF k > Len(AmPmOrder) THEN NoMatch
  ELSE AmPmElse(AmPmTry(s, i, AmPmOrder[k][1], AmPmOrder[k][2], AmPmOrder[k][3]),
                s, i, k)

\* The leftmost match from position i on.
RECURSIVE AmPmFrom(_, _)
AmPmNext(m, s, i) == IF m.matched THEN m ELSE AmPmFrom(s, i + 1)

AmPmFrom(s, i) == IF i > Len(s) THEN NoMatch ELSE AmPmNext(AmPmAt(s, i, 1), s, i)

\* /(\d{1,2}):?(\d{2})?\s*(AM|PM)/i
ampmMatch(time) == AmPmFrom(time, 1)

\* String.prototype.toUpperCase on the letters of AM and PM
toUpperCase(s) ==
  [k \in 1 .. Len(s) |->
     CASE s[k] = "a" -> "A" [] s[k] = "p" -> "P" [] s[k] = "m" -> "M"
       [] OTHER -> s[k]]

(***************************************************************************)
(* What a JavaScript function call does: it returns a value or throws.     *)
(***************************************************************************)
Returned(v) == [threw |-> FALSE, value |-> v, error |-> "", arg |-> <<>>]

Thrown(message, arg) == [threw |-> TRUE, value |-> <<>>, error |-> message, arg |-> arg]

TypeErrorMessage == "TypeError: Cannot read properties of undefined"
RangeErrorMessage == "RangeError: Invalid time value"
InvalidTimeFormatMessage == "Invalid time format: ${time}. Expected HH:MM or H:MM AM/PM"

\* The 12-hour branch, which the two normalizers share: the hour of the
\* match after the PM and the AM adjustment, in this order.
AmPmAdjust(hour, period) ==
  IF period = <<"P", "M">> /\ hour # 12 THEN hour + 12
  ELSE IF period = <<"A", "M">> /\ hour = 12 THEN 0
  ELSE hour

AmPmHour(m) == AmPmAdjust(parseInt(m.g1), toUpperCase(m.g3))

AmPmNormalized(m) ==
  padStart(toString(AmPmHour(m)), 2) \o <<":">>
    \o (IF m.g2 = <<>> THEN <<"0", "0">> ELSE m.g2)

\* normalizeTime once the 24-hour pattern did not return: the 12-hour branch.
normalizeTime12(time, ampmMatched) ==
  IF ampmMatched.matched
  THEN Returned(AmPmNormalized(ampmMatched))
  ELSE Thrown(InvalidTimeFormatMessage, time)

\* normalizeTime on a string, given the match of the 24-hour pattern.
normalizeTime24(time, hhmmMatched, hour) ==
  IF hhmmMatched.matched /\ hour >= 0 /\ hour < 24
  THEN Returned(padStart(toString(hour), 2) \o <<":">> \o hhmmMatched.g2)
  ELSE normalizeTime12(time, ampmMatch(time))

normalizeTimeString(time, hhmmMatched) ==
  normalizeTime24(time, hhmmMatched, parseInt(hhmmMatched.g1))

normalizeTime(time) ==
  IF ~IsString(time) THEN Thrown(TypeErrorMessage, time)
  ELSE normalizeTimeString(time, hhmmMatch(time))

\* /^\d{2}:\d{2}$/.test(time); test() converts undefined to "undefined"
IsTwoDigitHHMM(time) ==
  /\ IsString(time) /\ Len(time) = 5
  /\ IsDigitAt(time, 1) /\ IsDigitAt(time, 2) /\ time[3] = ":"
  /\ IsDigitAt(time, 4) /\ IsDigitAt(time, 5)

\* /^\d{1}:\d{2}$/.test(time)
IsOneDigitHMM(time) ==
  /\ IsString(time) /\ Len(time) = 4
  /\ IsDigitAt(time, 1) /\ time[2] = ":"
  /\ IsDigitAt(time, 3) /\ IsDigitAt(time, 4)

formatTime12(time, match) ==
  IF match.matched THEN Returned(AmPmNormalized(match)) ELSE Returned(time)

formatTime(time) ==
  IF IsTwoDigitHHMM(time) THEN Returned(time)
  ELSE IF IsOneDigitHMM(time) THEN Returned(padStart(time, 5))
  ELSE IF ~IsString(time) THEN Thrown(TypeErrorMessage, time)
  ELSE formatTime12(time, ampmMatch(time))

(***************************************************************************)
(* Dates and instants.  An instant is a number of minutes since 00:00 UTC  *)
(* of the first day the model knows; NaN is the time value of an Invalid   *)
(* Date.  An ISO string is represented by the instant it denotes.          *)
(***************************************************************************)
NaN == -1

MinutesPerHour == 60
MinutesPerDay == 1440

\* The fixed civil-time offset "-05:00" of the service, in minutes.
EasternOffset == 300

\* The dates a request may name: one calendar date, and the text the template
\* literal makes of a missing date.
KnownDate == "2025-01-06"
MissingDate == "undefined"

IsValidDate(date) == date = KnownDate

DayStart(date) == 0

\* new Date(`${date}T${hhmm}:00` + offset): the ISO date-time form, which
\* wants a two-digit hour up to 24 and a two-digit minute up to 59.
DateAt(date, h, m, offset) ==
  IF (h <= 23 /\ m <= 59) \/ (h = 24 /\ m = 0)
  THEN DayStart(date) + h * MinutesPerHour + m + offset
  ELSE NaN

DateOf(date, hhmm, offset) ==
  IF IsValidDate(date) /\ IsTwoDigitHHMM(hhmm)
  THEN DateAt(date, parseInt(SubSeq(hhmm, 1, 2)), parseInt(SubSeq(hhmm, 4, 5)), offset)
  ELSE NaN

\* A variant that writes an Invalid Date instead of throwing.
toISOStringOfInvalid(d) == Returned(d)

\* Date.prototype.toISOString
toISOString(d) ==
  IF d = NaN THEN Thrown(RangeErrorMessage, <<>>) ELSE Returned(d)

(***************************************************************************)
(* The remote calendar: a set of events, each with an id the store chose.  *)
(* events.list answers with every event that intersects the range and may *)
(* add events that only touch one of its bounds; events.insert stores the  *)
(* resource it is given.  Either call may fail.                            *)
(***************************************************************************)
Event(id, start, end) == [id |-> id, start |-> start, end |-> end]

MustList(cal, timeMin, timeMax) ==
  {e \in cal : e.start < timeMax /\ e.end > timeMin}

MayList(cal, timeMin, timeMax) ==
  {e \in cal : e.start <= timeMax /\ e.end >= timeMin}

ListAnswers(cal, timeMin, timeMax) ==
  {items \in SUBSET MayList(cal, timeMin, timeMax) :
     MustList(cal, timeMin, timeMax) \subseteq items}

RemoteErrorMessage == "calendar request failed"

(***************************************************************************)
(* The text of a result, kept as the template and what fills it.           *)
(***************************************************************************)
Message(text, date, startTime, endTime, total, overlapping, error) ==
  [text |-> text, date |-> date, startTime |-> startTime, endTime |-> endTime,
   total |-> total, overlapping |-> overlapping, error |-> error]

ErrorMessage(text, error) == Message(text, "", <<>>, <<>>, 0, 0, error)

AvailableText == "Yes, ${date} from ${startTime} to ${endTime} is available."
BookedText == "Sorry, ${date} from ${startTime} to ${endTime} is already booked."
CheckFailedText == "Unable to check calendar availability at this time. Error: "
CheckFailedTextIndex == "Unable to check calendar availability at this time."
BookedOkText == "Appointment booked successfully for ${date} from ${startTime} to ${endTime}."
BookFailedText == "Unable to book the appointment at this time. Error: "

(***************************************************************************)
(* An async function of the engines is three operators: Try, the body up   *)
(* to its await (what it asks of the calendar, or what it returns when the *)
(* body throws first); Then, the body after the await; Catch, the handler  *)
(* of its try statement.                                                   *)
(***************************************************************************)
Await(api, timeMin, timeMax) ==
  [await |-> api, timeMin |-> timeMin, timeMax |-> timeMax, value |-> <<>>]

Return(v) == [await |-> "none", timeMin |-> NaN, timeMax |-> NaN, value |-> v]

\* The function throws to its caller (its promise is rejected with error).
Raise(error) == [await |-> "throw", timeMin |-> NaN, timeMax |-> NaN, value |-> error]

checkAvailabilityCatch(error) ==
  [available |-> FALSE, message |-> ErrorMessage(CheckFailedText, error.error)]

\* The window of a request: both times normalized, then both composed with
\* the date and the offset and written as ISO strings; the first step that
\* throws ends it.
WindowISO(timeMin, timeMax) ==
  IF timeMin.threw THEN timeMin
  ELSE IF timeMax.threw THEN timeMax
  ELSE Returned(<<timeMin.value, timeMax.value>>)

Window(date, formattedStart, formattedEnd, offset) ==
  IF formattedStart.threw THEN formattedStart
  ELSE IF formattedEnd.threw THEN formattedEnd
  ELSE WindowISO(toISOString(DateOf(date, formattedStart.value, offset)),
                 toISOString(DateOf(date, formattedEnd.value, offset)))

\* A variant that normalizes outside the try statement.
checkAvailabilityAwaitUncaught(w) ==
  IF w.threw THEN Raise(w) ELSE Await("list", w.value[1], w.value[2])

checkAvailabilityAwait(w) ==
  IF w.threw THEN Return(checkAvailabilityCatch(w))
  ELSE Await("list", w.value[1], w.value[2])

checkAvailabilityTry(date, startTime, endTime) ==
  checkAvailabilityAwait(
    Window(date, normalizeTime(startTime), normalizeTime(endTime), EasternOffset))

\* eventStart < requestEnd && eventEnd > requestStart
Overlaps(event, requestStart, requestEnd) ==
  event.start < requestEnd /\ event.end > requestStart

checkAvailabilityResult(date, startTime, endTime, total, overlapping) ==
  [available |-> overlapping = 0,
   message |-> Message(IF overlapping = 0 THEN AvailableText ELSE BookedText,
                       date, startTime, endTime, total, overlapping, "")]

overlappingEvents(events, requestStart, requestEnd) ==
  {e \in events : Overlaps(e, requestStart, requestEnd)}

checkAvailabilityThen(date, startTime, endTime, timeMin, timeMax, items) ==
  checkAvailabilityResult(date, startTime, endTime, Cardinality(items),
                          Cardinality(overlappingEvents(items, timeMin, timeMax)))

\* index.js: no second look at what the list returned.
checkAvailabilityIndexCatch(error) ==
  [available |-> FALSE, message |-> ErrorMessage(CheckFailedTextIndex, "")]

checkAvailabilityIndexAwait(w) ==
  IF w.threw THEN Return(checkAvailabilityIndexCatch(w))
  ELSE Await("list", w.value[1], w.value[2])

checkAvailabilityIndexTry(date, startTime, endTime) ==
  checkAvailabilityIndexAwait(
    Window(date, formatTime(startTime), formatTime(endTime), EasternOffset))

checkAvailabilityIndexThen(date, startTime, endTime, timeMin, timeMax, items) ==
  [available |-> Cardinality(items) = 0,
   message |-> Message(IF Cardinality(items) = 0 THEN AvailableText ELSE BookedText,
                       date, startTime, endTime, 0, 0, "")]

bookAppointmentCatch(error) ==
  [success |-> FALSE, message |-> ErrorMessage(BookFailedText, error.error),
   eventId |-> 0]

\* The event resource is its start and end instants; the await is the insert.
bookAppointmentAwait(w) ==
  IF w.threw THEN Return(bookAppointmentCatch(w))
  ELSE Await("insert", w.value[1], w.value[2])

bookAppointmentTry(summary, date, startTime, endTime) ==
  bookAppointmentAwait(
    Window(date, normalizeTime(startTime), normalizeTime(endTime), EasternOffset))

bookAppointmentThen(date, startTime, endTime, id) ==
  [success |-> TRUE,
   message |-> Message(BookedOkText, date, startTime, endTime, 0, 0, ""),
   eventId |-> id]

(***************************************************************************)
(* The engines by name, as a caller reaches them.                          *)
(***************************************************************************)
(***************************************************************************)
(* The engines of the OAuth servers (part_001 and part_002, the files with *)
(* handleConversation and with messagesOpenAIFormatted): no normalizer,    *)
(* the times are composed with the date as they come and read in the time  *)
(* zone of the process, which is zone minutes behind UTC.                  *)
(***************************************************************************)
checkAvailabilityOAuthCatch(error) == FALSE

checkAvailabilityOAuthAwait(timeMin, timeMax) ==
  IF timeMin.threw THEN Return(checkAvailabilityOAuthCatch(timeMin))
  ELSE IF timeMax.threw THEN Return(checkAvailabilityOAuthCatch(timeMax))
  ELSE Await("list", timeMin.value, timeMax.value)

checkAvailabilityOAuthTry(date, startTime, endTime, zone) ==
  checkAvailabilityOAuthAwait(toISOString(DateOf(date, startTime, zone)),
                              toISOString(DateOf(date, endTime, zone)))

\* response.data.items.length === 0
checkAvailabilityOAuthThen(items) == Cardinality(items) = 0

BookingResult(success, eventId, error) ==
  [success |-> success, eventId |-> eventId, error |-> error]

bookAppointmentOAuthCatch(error) == BookingResult(FALSE, 0, error.error)

bookAppointmentOAuthAwait(start, end) ==
  IF start.threw THEN Return(bookAppointmentOAuthCatch(start))
  ELSE IF end.threw THEN Return(bookAppointmentOAuthCatch(end))
  ELSE Await("insert", start.value, end.value)

bookAppointmentOAuthTry(summary, date, startTime, endTime, zone) ==
  bookAppointmentOAuthAwait(toISOString(DateOf(date, startTime, zone)),
                            toISOString(DateOf(date, endTime, zone)))

bookAppointmentOAuthThen(id) == BookingResult(TRUE, id, "")

CheckFns == {"checkAvailability", "checkAvailabilityIndex"}
BookFns == {"bookAppointment"}

EngineTry(fn, summary, date, startTime, endTime) ==
  CASE fn = "checkAvailability" -> checkAvailabilityTry(date, startTime, endTime)
    [] fn = "checkAvailabilityIndex" -> checkAvailabilityIndexTry(date, startTime, endTime)
    [] fn = "bookAppointment" -> bookAppointmentTry(summary, date, startTime, endTime)

EngineCatch(fn, error) ==
  CASE fn = "checkAvailability" -> checkAvailabilityCatch(error)
    [] fn = "checkAvailabilityIndex" -> checkAvailabilityIndexCatch(error)
    [] fn = "bookAppointment" -> bookAppointmentCatch(error)
    [] fn = "checkAvailabilityOAuth" -> checkAvailabilityOAuthCatch(error)
    [] fn = "bookAppointmentOAuth" -> bookAppointmentOAuthCatch(error)

\* After a list that answered with items.
EngineThenList(f, items) ==
  CASE f.fn = "checkAvailability" ->
         checkAvailabilityThen(f.date, f.startTime, f.endTime, f.timeMin, f.timeMax, items)
    [] f.fn = "checkAvailabilityIndex" ->
         checkAvailabilityIndexThen(f.date, f.startTime, f.endTime, f.timeMin, f.timeMax, items)
    [] f.fn = "checkAvailabilityOAuth" -> checkAvailabilityOAuthThen(items)

\* After an insert that stored the event under id.
EngineThenInsert(f, id) ==
  CASE f.fn = "bookAppointment" -> bookAppointmentThen(f.date, f.startTime, f.endTime, id)
    [] f.fn = "bookAppointmentOAuth" -> bookAppointmentOAuthThen(id)

(***************************************************************************)
(* The tool-call webhook (part_001, app.post('/webhook') of the service-   *)
(* account server).  A tool call is {id, function: {name, arguments}};     *)
(* the arguments come as a JSON string or as a structured value.           *)
(***************************************************************************)
\* arguments: form is how they arrive, json what they hold ("object": the
\* mapping of date, start_time, end_time; "null": null or nothing;
\* "malformed": text that is no JSON, which only a string can be).
Arguments(form, json, date, start_time, end_time) ==
  [form |-> form, json |-> json, date |-> date,
   start_time |-> start_time, end_time |-> end_time]

ToolCall(id, hasFunction, name, arguments) ==
  [id |-> id, hasFunction |-> hasFunction, name |-> name, arguments |-> arguments]

SyntaxErrorMessage == "SyntaxError: Unexpected token in JSON"
UnknownToolText == "Unknown tool: ${name}"
ErrorText == "Error: ${error.message}"

\* typeof args === 'string' ? JSON.parse(args) : args
parseArguments(args) ==
  IF args.form = "string" /\ args.json = "malformed"
  THEN Thrown(SyntaxErrorMessage, <<>>)
  ELSE Returned(args)

\* One iteration of the loop, up to its await: the result it pushes at once
\* (await "none") or the engine call it waits for.
Pushed(result) ==
  [await |-> "none", result |-> result, fn |-> "none", date |-> "",
   startTime |-> <<>>, endTime |-> <<>>, timeMin |-> NaN, timeMax |-> NaN]

Pending(fn, a, r) ==
  [await |-> r.await, result |-> <<>>, fn |-> fn, date |-> a.date,
   startTime |-> a.start_time, endTime |-> a.end_time,
   timeMin |-> r.timeMin, timeMax |-> r.timeMax]

\* The engine was called with the arguments a and ran to r.
EngineCalled(fn, a, r) ==
  IF r.await = "none" THEN Pushed(r.value.message)
  ELSE IF r.await = "throw" THEN Pushed(ErrorMessage(ErrorText, r.value.error))
  ELSE Pending(fn, a, r)

\* The branches on the name, with parsedArgs in hand; destructuring null
\* throws a TypeError, which the catch of the iteration turns into a result.
dispatchParsed(name, parsedArgs) ==
  IF name = "check_availability"
  THEN IF parsedArgs.json = "null"
       THEN Pushed(ErrorMessage(ErrorText, TypeErrorMessage))
       ELSE EngineCalled("checkAvailability", parsedArgs,
              checkAvailabilityTry(parsedArgs.date, parsedArgs.start_time,
                                   parsedArgs.end_time))
  ELSE IF name = "book_appointment"
  THEN IF parsedArgs.json = "null"
       THEN Pushed(ErrorMessage(ErrorText, TypeErrorMessage))
       ELSE EngineCalled("bookAppointment", parsedArgs,
              bookAppointmentTry("", parsedArgs.date, parsedArgs.start_time,
                                 parsedArgs.end_time))
  ELSE Pushed(ErrorMessage(UnknownToolText, name))

dispatchTry(name, parsed) ==
  IF parsed.threw THEN Pushed(ErrorMessage(ErrorText, parsed.error))
  ELSE dispatchParsed(name, parsed.value)

\* The try statement of one iteration.
dispatch(toolCall) == dispatchTry(toolCall.name, parseArguments(toolCall.arguments))

\* A variant that binds every result to one made-up id.
ToolResultUnbound(toolCallId, result) == [toolCallId |-> "call_0", result |-> result]

ToolResult(toolCallId, result) == [toolCallId |-> toolCallId, result |-> result]

\* Where the loop stops when it runs from the i-th tool call on with the
\* results pushed so far: at the await of an engine call ("await"), at the
\* response after the last tool call ("respond"), or at the destructuring of
\* a tool call without a function, which throws outside every try ("crash").
Stopped(stop, i, results, d) == [stop |-> stop, i |-> i, results |-> results, d |-> d]

RECURSIVE RunBatch(_, _, _)
Iterated(toolCalls, i, results, d) ==
  IF d.await = "none"
  THEN RunBatch(toolCalls, i + 1, Append(results, ToolResult(toolCalls[i].id, d.result)))
  ELSE Stopped("await", i, results, d)

RunBatch(toolCalls, i, results) ==
  IF i > Len(toolCalls) THEN Stopped("respond", i, results, Pushed(<<>>))
  ELSE IF ~toolCalls[i].hasFunction THEN Stopped("crash", i, results, Pushed(<<>>))
  ELSE Iterated(toolCalls, i, results, dispatch(toolCalls[i]))

(***************************************************************************)
(* The conversation handlers: handleConversation (part_001) and the        *)
(* webhook that reads message.messagesOpenAIFormatted (part_002).          *)
(***************************************************************************)
Turn(role, content) == [role |-> role, content |-> content]

\* What the request carries where its list of messages should be: nothing,
\* a string, or a list of turns.
Messages(kind, turns) == [kind |-> kind, turns |-> turns]

DefaultSystemMessage ==
  "You are a professional voice secretary. Keep responses brief (1-2 sentences)."

\* A variant that looks for the system turn at the head of the list only.
findSystemFirst(messages, i) ==
  IF Len(messages) > 0 /\ messages[1].role = "system" THEN messages[1].content ELSE ""

\* messages.find(m => m.role === 'system')?.content, "" when there is none
RECURSIVE findSystem(_, _)
findSystem(messages, i) ==
  IF i > Len(messages) THEN ""
  ELSE IF messages[i].role = "system" THEN messages[i].content
  ELSE findSystem(messages, i + 1)

OrDefault(content) == IF content = "" THEN DefaultSystemMessage ELSE content

systemMessageOf(messages) == OrDefault(findSystem(messages, 1))

claudeTurn(m) == Turn(IF m.role = "assistant" THEN "assistant" ELSE "user", m.content)

NotSystem(m) == m.role # "system"

Mapped(turns) == [i \in 1..Len(turns) |-> claudeTurn(turns[i])]

claudeMessagesOf(messages) == Mapped(SelectSeq(messages, NotSystem))

\* A completion of the model: a stop reason and a list of content blocks.
Input(summary, date, start_time, end_time) ==
  [summary |-> summary, date |-> date, start_time |-> start_time, end_time |-> end_time]

NoInput == Input("", "", <<>>, <<>>)

Block(type, text, id, name, input) ==
  [type |-> type, text |-> text, id |-> id, name |-> name, input |-> input]

TextBlock(text) == Block("text", text, "", "", NoInput)
ToolUseBlock(id, name, input) == Block("tool_use", "", id, name, input)
NoBlock == Block("none", "", "", "", NoInput)

Completion(stop_reason, content) == [stop_reason |-> stop_reason, content |-> content]

NoCompletion == Completion("none", <<>>)

\* A variant that takes the last block of the type instead of the first.
RECURSIVE findLast(_, _, _)
findLast(content, type, i) ==
  IF i > Len(content) THEN NoBlock
  ELSE IF findLast(content, type, i + 1).type # "none" THEN findLast(content, type, i + 1)
  ELSE IF content[i].type = type THEN content[i]
  ELSE NoBlock

\* content.find(block => block.type === type)
RECURSIVE find(_, _, _)
find(content, type, i) ==
  IF i > Len(content) THEN NoBlock
  ELSE IF content[i].type = type THEN content[i]
  ELSE find(content, type, i + 1)

DirectFallback == "I'm here to help!"
FinalFallback == "Done!"

\* textContent ? textContent.text : fallback
replyOfBlock(textContent, fallback) ==
  IF textContent.type = "none" THEN fallback ELSE textContent.text

replyOf(content, fallback) == replyOfBlock(find(content, "text", 1), fallback)

\* The tool results of the conversation: the object of check_availability,
\* the return value of bookAppointment, and undefined.
AvailableTextConv == "${date} from ${start_time} to ${end_time} is available."
NotAvailableTextConv == "${date} from ${start_time} to ${end_time} is not available."
AvailableTextVapi == "Yes, ${date} from ${start_time} to ${end_time} is available."
NotAvailableTextVapi == "Sorry, ${date} from ${start_time} to ${end_time} is not available."

availabilityText(entry, isAvailable) ==
  IF entry = "conversation"
  THEN (IF isAvailable THEN AvailableTextConv ELSE NotAvailableTextConv)
  ELSE (IF isAvailable THEN AvailableTextVapi ELSE NotAvailableTextVapi)

AvailabilityResult(entry, input, isAvailable) ==
  [available |-> isAvailable,
   message |-> Message(availabilityText(entry, isAvailable), input.date,
                       input.start_time, input.end_time, 0, 0, "")]

toolResultOf(entry, fn, input, v) ==
  IF fn = "checkAvailabilityOAuth" THEN AvailabilityResult(entry, input, v) ELSE v

\* let toolResult; with no branch taken
UndefinedResult == [undefined |-> TRUE]

\* JSON.stringify: the text of an object, and undefined for undefined.
stringify(toolResult) ==
  IF toolResult = UndefinedResult THEN [json |-> "undefined"]
  ELSE [json |-> "object", value |-> toolResult]

ToolResultBlock(tool_use_id, content) ==
  [type |-> "tool_result", tool_use_id |-> tool_use_id, content |-> content]

\* The tools of both create calls.
Tools == {"check_availability", "book_appointment"}

\* A request to anthropic.messages.create
Request(system, messages) == [system |-> system, messages |-> messages, tools |-> Tools]

NoRequest == [system |-> "", messages |-> <<>>, tools |-> {}]

\* A variant that sends the tool exchange without the turns before it.
finalMessagesWithoutTurns(claudeMessages, response, toolUse, toolResult) ==
  << Turn("assistant", response.content),
     Turn("user", <<ToolResultBlock(toolUse.id, stringify(toolResult))>>) >>

\* The messages of the second create call.
finalMessages(claudeMessages, response, toolUse, toolResult) ==
  claudeMessages
    \o << Turn("assistant", response.content),
          Turn("user", <<ToolResultBlock(toolUse.id, stringify(toolResult))>>) >>

NoValidMessagesText == "No valid messages provided"
NoTurnsText == "At least one non-system message required"
LlmErrorMessage == "Anthropic API error"

(***************************************************************************)
(* The bounds of the model and the inputs it draws.                        *)
(***************************************************************************)
\* Events the handlers of the model may insert in one behaviour.
MaxEvents == 2
\* Engine calls one direct caller makes in a row.
MaxOps == 2
\* Tool calls in one batch.
MaxCalls == 2
\* Turns in one list of messages, where all lists are drawn.
MaxTurns == 3

T0900 == <<"0", "9", ":", "0", "0">>
T1000 == <<"1", "0", ":", "0", "0">>
T1100 == <<"1", "1", ":", "0", "0">>
T1400 == <<"1", "4", ":", "0", "0">>
T930  == <<"9", ":", "3", "0">>
T1030 == <<"1", "0", ":", "3", "0">>
T10AM == <<"1", "0", " ", "A", "M">>
T2500 == <<"2", "5", ":", "0", "0">>
T13PM == <<"1", "3", " ", "P", "M">>

\* (date, startTime, endTime) of the requests: three windows that overlap
\* or touch, an empty and an inverted one, and four that cannot be composed.
Requests ==
  { <<KnownDate, T0900, T1000>>, <<KnownDate, T10AM, T1100>>,
    <<KnownDate, T930, T1030>>,  <<KnownDate, T1000, T1000>>,
    <<KnownDate, T1100, T1000>>, <<KnownDate, T2500, T1000>>,
    <<KnownDate, T13PM, T1400>>, <<KnownDate, Undefined, T1000>>,
    <<MissingDate, T0900, T1000>> }

\* Events other users of the calendar hold: 09:00-10:00 and 09:30-10:30
\* Eastern, with ids of their own.
SeedEvents ==
  { Event(101, 9 * MinutesPerHour + EasternOffset, 10 * MinutesPerHour + EasternOffset),
    Event(102, 9 * MinutesPerHour + 30 + EasternOffset,
               10 * MinutesPerHour + 30 + EasternOffset) }

\* The tool calls a batch is made of: two that are well formed, one with a
\* time that is none, one of an unknown name, one whose arguments are no
\* JSON, one whose arguments are null, one without a function, and one
\* without an id.
ToolCallSamples ==
  { ToolCall("call_a", TRUE, "check_availability",
             Arguments("string", "object", KnownDate, T10AM, T1100)),
    ToolCall("call_b", TRUE, "book_appointment",
             Arguments("object", "object", KnownDate, T0900, T1000)),
    ToolCall("call_c", TRUE, "check_availability",
             Arguments("string", "object", KnownDate, T2500, T1000)),
    ToolCall("call_d", TRUE, "cancel_appointment",
             Arguments("string", "object", KnownDate, T0900, T1000)),
    ToolCall("call_e", TRUE, "book_appointment",
             Arguments("string", "malformed", "", <<>>, <<>>)),
    ToolCall("call_f", TRUE, "check_availability",
             Arguments("object", "null", "", <<>>, <<>>)),
    ToolCall("call_g", FALSE, "", Arguments("object", "null", "", <<>>, <<>>)),
    ToolCall("undefined", TRUE, "book_appointment",
             Arguments("string", "object", KnownDate, T930, T1030)) }

RECURSIVE SeqsUpTo(_, _)
SeqsUpTo(S, n) ==
  IF n = 0 THEN {<<>>}
  ELSE SeqsUpTo(S, n - 1)
         \cup {Append(q, x) : q \in {q \in SeqsUpTo(S, n - 1) : Len(q) = n - 1}, x \in S}

\* The bodies of the webhook requests: no message, a message without
\* toolCalls, and a message with a list of up to MaxCalls tool calls.
WebhookBody(hasMessage, hasToolCalls, toolCalls) ==
  [hasMessage |-> hasMessage, hasToolCalls |-> hasToolCalls, toolCalls |-> toolCalls]

WebhookBodies ==
  {WebhookBody(FALSE, FALSE, <<>>), WebhookBody(TRUE, FALSE, <<>>)}
    \cup {WebhookBody(TRUE, TRUE, q) : q \in SeqsUpTo(ToolCallSamples, MaxCalls)}

\* What conversational requests carry as their list of messages.
MessagesSamples ==
  { Messages("absent", <<>>),
    Messages("string", <<>>),
    Messages("array", <<>>),
    Messages("array", <<Turn("system", "Be brief.")>>),
    Messages("array", <<Turn("user", "Hi")>>),
    Messages("array", <<Turn("system", "Be brief."), Turn("user", "Hi")>>),
    Messages("array", <<Turn("user", "Hi"), Turn("assistant", "Hello"),
                        Turn("system", "Be brief."), Turn("tool", "Book it")>>) }

\* What the model answers.
CompletionSamples ==
  { Completion("end_turn", <<TextBlock("Hello")>>),
    Completion("end_turn", <<>>),
    Completion("end_turn", <<TextBlock("")>>),
    Completion("tool_use",
      <<TextBlock("One moment."),
        ToolUseBlock("toolu_1", "check_availability",
                     Input("", KnownDate, T0900, T1000))>>),
    Completion("tool_use",
      <<ToolUseBlock("toolu_2", "book_appointment",
                     Input("Haircut", KnownDate, T1000, T1100))>>),
    Completion("tool_use",
      <<ToolUseBlock("toolu_3", "cancel_appointment",
                     Input("", KnownDate, T0900, T1000))>>),
    Completion("tool_use", <<TextBlock("One moment.")>>),
    Completion("max_tokens",
      <<ToolUseBlock("toolu_4", "book_appointment",
                     Input("Haircut", KnownDate, T0900, T1000))>>),
    Completion("tool_use",
      <<ToolUseBlock("toolu_5", "check_availability",
                     Input("", KnownDate, T0900, T1000)),
        ToolUseBlock("toolu_6", "book_appointment",
                     Input("Haircut", KnownDate, T0900, T1000))>>),
    Completion("tool_use",
      <<ToolUseBlock("toolu_7", "book_appointment",
                     Input("Haircut", KnownDate, T2500, T1000))>>) }

\* The turns that the lists of messages of up to MaxTurns turns are made of:
\* a system turn, a system turn without content, and turns of other roles.
TurnSamples ==
  { Turn("system", "Be brief."), Turn("system", ""), Turn("user", "Hi"),
    Turn("assistant", "Hello"), Turn("tool", "Book it") }

TurnLists == SeqsUpTo(TurnSamples, MaxTurns)

\* The time zones the process may run in: UTC and US Eastern.
Zones == {0, EasternOffset}

Proc == {"p1", "p2"}

(***************************************************************************)
(* State.                                                                  *)
(*   calendar  the events of the remote calendar                           *)
(*   nextId    the id the calendar gives the next inserted event           *)
(*   pc        where each handler stands: idle, awaiting list / insert /   *)
(*             llm1 / llm2, done (responded), crashed (rejected promise)   *)
(*   job       the handler's own frame                                     *)
(*   eng       the frame of the engine call in progress                    *)
(*   out       what the engine last returned to a direct caller, with the  *)
(*             calendar as it was when the remote call was answered        *)
(*   res       the HTTP response sent, if any                              *)
(*   log       the remote calls a handler has issued, in order             *)
(***************************************************************************)
VARIABLES calendar, nextId, zone, pc, job, eng, out, res, log, sent

vars == <<calendar, nextId, zone, pc, job, eng, out, res, log, sent>>

NoFrame ==
  [fn |-> "none", summary |-> "", date |-> "", startTime |-> <<>>, endTime |-> <<>>,
   timeMin |-> NaN, timeMax |-> NaN]

Frame(fn, summary, date, startTime, endTime, timeMin, timeMax) ==
  [fn |-> fn, summary |-> summary, date |-> date, startTime |-> startTime,
   endTime |-> endTime, timeMin |-> timeMin, timeMax |-> timeMax]

NoJob == [entry |-> "none"]

WebhookJob(toolCalls, i, results) ==
  [entry |-> "webhook", toolCalls |-> toolCalls, i |-> i, results |-> results]

ConvJob(entry, payload, step, system, claudeMessages, response, toolUse) ==
  [entry |-> entry, payload |-> payload, step |-> step, system |-> system,
   claudeMessages |-> claudeMessages, response |-> response, toolUse |-> toolUse]

\* The responses: none yet, {received: true}, {results}, {choices}, {error}.
Response(status, kind, results, content, error) ==
  [status |-> status, kind |-> kind, results |-> results, content |-> content,
   error |-> error]

NoRes == Response(0, "none", <<>>, "", "")
ReceivedResponse == Response(200, "received", <<>>, "", "")
ResultsResponse(results) == Response(200, "results", results, "", "")
ChoicesResponse(reply) == Response(200, "choices", <<>>, reply, "")
ErrorResponse(status, message) == Response(status, "error", <<>>, "", message)

\* res.json of a reply, as each of the two handlers writes it.
SuccessResponse(entry, reply) ==
  IF entry = "conversation" THEN ChoicesResponse(reply)
  ELSE ResultsResponse(<<Turn("assistant", reply)>>)

NoOut == [fn |-> "none"]

Out(f, asked, failed, seen, items, value) ==
  [fn |-> f.fn, date |-> f.date, startTime |-> f.startTime, endTime |-> f.endTime,
   timeMin |-> f.timeMin, timeMax |-> f.timeMax, raised |-> FALSE,
   asked |-> asked, failed |-> failed, seen |-> seen, items |-> items, value |-> value]

\* What a direct caller holds when the engine threw instead of returning.
OutRaised(f, error) == [Out(f, "none", FALSE, {}, {}, error) EXCEPT !.raised = TRUE]

Init ==
  /\ calendar = {}
  /\ nextId = 1
  /\ zone \in Zones
  /\ pc = [p \in Proc |-> "idle"]
  /\ job = [p \in Proc |-> NoJob]
  /\ eng = [p \in Proc |-> NoFrame]
  /\ out = [p \in Proc |-> NoOut]
  /\ res = [p \in Proc |-> NoRes]
  /\ log = [p \in Proc |-> <<>>]
  /\ sent = [p \in Proc |-> NoRequest]

\* Another user of the calendar stores an event.
ExternalInsert(e) ==
  /\ e \notin calendar
  /\ calendar' = calendar \cup {e}
  /\ UNCHANGED <<nextId, zone, pc, job, eng, out, res, log, sent>>

(***************************************************************************)
(* A direct caller of the engines: up to MaxOps calls, one after the       *)
(* other, each awaited.                                                    *)
(***************************************************************************)
\* Whether the call that just returned was a successful booking of exactly
\* (date, startTime, endTime).
JustBooked(o, date, startTime, endTime) ==
  /\ o.fn = "bookAppointment"
  /\ o.value.success
  /\ o.date = date /\ o.startTime = startTime /\ o.endTime = endTime

\* Whether the call that just returned was a checkAvailability of exactly
\* (date, startTime, endTime) that answered available.
JustChecked(o, date, startTime, endTime) ==
  /\ o.fn = "checkAvailability"
  /\ ~o.raised
  /\ o.value.available
  /\ o.date = date /\ o.startTime = startTime /\ o.endTime = endTime

DirectJob(calls, afterBooking, afterCheck) ==
  [entry |-> "direct", calls |-> calls, afterBooking |-> afterBooking,
   afterCheck |-> afterCheck]

\* The engine returned v to the direct caller p.
DirectReturn(p, f, asked, failed, seen, items, v) ==
  /\ out' = [out EXCEPT ![p] = Out(f, asked, failed, seen, items, v)]
  /\ pc' = [pc EXCEPT ![p] = "idle"]
  /\ eng' = [eng EXCEPT ![p] = NoFrame]

\* The completion of the remote call that p awaits, as the log writes it.
Answered(p, failed) == IF failed THEN pc[p] \o ".fail" ELSE pc[p] \o ".ok"

\* The call ran to r: the return of its catch block, an exception that
\* escaped it, or its await.
Called(p, f, r) ==
  IF r.await = "none"
  THEN /\ DirectReturn(p, f, "none", FALSE, {}, {}, r.value)
       /\ log' = [log EXCEPT ![p] = <<>>]
  ELSE IF r.await = "throw"
  THEN /\ out' = [out EXCEPT ![p] = OutRaised(f, r.value)]
       /\ log' = [log EXCEPT ![p] = <<>>]
       /\ UNCHANGED <<pc, eng>>
  ELSE /\ pc' = [pc EXCEPT ![p] = r.await]
       /\ eng' = [eng EXCEPT ![p] = [f EXCEPT !.timeMin = r.timeMin,
                                              !.timeMax = r.timeMax]]
       /\ log' = [log EXCEPT ![p] = <<r.await>>]
       /\ UNCHANGED out

Call(p, fn, summary, date, startTime, endTime) ==
  /\ pc[p] = "idle"
  /\ job[p].entry \in {"none", "direct"}
  /\ (job[p].entry = "direct") => (job[p].calls < MaxOps)
  /\ job' = [job EXCEPT ![p] =
               DirectJob(IF job[p].entry = "direct" THEN job[p].calls + 1 ELSE 1,
                         JustBooked(out[p], date, startTime, endTime),
                         JustChecked(out[p], date, startTime, endTime))]
  /\ Called(p, Frame(fn, summary, date, startTime, endTime, NaN, NaN),
            EngineTry(fn, summary, date, startTime, endTime))
  /\ UNCHANGED <<calendar, nextId, zone, res, sent>>

(***************************************************************************)
(* The tool-call webhook as a handler.                                     *)
(***************************************************************************)
\* The handler of p ran its loop to st, having logged lg so far.
WebhookStopped(p, toolCalls, st, lg) ==
  /\ job' = [job EXCEPT ![p] = WebhookJob(toolCalls, st.i, st.results)]
  /\ IF st.stop = "await"
     THEN /\ pc' = [pc EXCEPT ![p] = st.d.await]
          /\ eng' = [eng EXCEPT ![p] =
                       Frame(st.d.fn, "", st.d.date, st.d.startTime, st.d.endTime,
                             st.d.timeMin, st.d.timeMax)]
          /\ log' = [log EXCEPT ![p] = Append(lg, st.d.await)]
          /\ UNCHANGED res
     ELSE IF st.stop = "respond"
     THEN /\ pc' = [pc EXCEPT ![p] = "done"]
          /\ eng' = [eng EXCEPT ![p] = NoFrame]
          /\ res' = [res EXCEPT ![p] = ResultsResponse(st.results)]
          /\ log' = [log EXCEPT ![p] = lg]
     ELSE /\ pc' = [pc EXCEPT ![p] = "crashed"]
          /\ eng' = [eng EXCEPT ![p] = NoFrame]
          /\ log' = [log EXCEPT ![p] = lg]
          /\ UNCHANGED res

\* The handler of a body without tool calls, which keeps the body.
PingJob(body) ==
  [entry |-> "webhook", body |-> body, toolCalls |-> body.toolCalls, i |-> 0,
   results |-> <<>>]

\* A variant that forgets the test of the length of toolCalls.
WebhookLax(p, body) ==
  /\ pc[p] = "idle"
  /\ job[p].entry = "none"
  /\ IF ~body.hasMessage \/ ~body.hasToolCalls
     THEN /\ pc' = [pc EXCEPT ![p] = "done"]
          /\ job' = [job EXCEPT ![p] = PingJob(body)]
          /\ res' = [res EXCEPT ![p] = ReceivedResponse]
          /\ UNCHANGED <<eng, log>>
     ELSE WebhookStopped(p, body.toolCalls, RunBatch(body.toolCalls, 1, <<>>), <<>>)
  /\ UNCHANGED <<calendar, nextId, zone, out, sent>>

\* A request arrives at the webhook.
Webhook(p, body) ==
  /\ pc[p] = "idle"
  /\ job[p].entry = "none"
  /\ IF ~body.hasMessage \/ ~body.hasToolCalls \/ Len(body.toolCalls) = 0
     THEN /\ pc' = [pc EXCEPT ![p] = "done"]
          /\ job' = [job EXCEPT ![p] = PingJob(body)]
          /\ res' = [res EXCEPT ![p] = ReceivedResponse]
          /\ UNCHANGED <<eng, log>>
     ELSE WebhookStopped(p, body.toolCalls, RunBatch(body.toolCalls, 1, <<>>), <<>>)
  /\ UNCHANGED <<calendar, nextId, zone, out, sent>>

\* The engine call of the current tool call returned v: its message is the
\* result, and the loop goes on.
WebhookResume(p, failed, v) ==
  /\ WebhookStopped(p, job[p].toolCalls,
       RunBatch(job[p].toolCalls, job[p].i + 1,
                Append(job[p].results,
                       ToolResult(job[p].toolCalls[job[p].i].id, v.message))),
       Append(log[p], Answered(p, failed)))
  /\ UNCHANGED <<out, sent>>

(***************************************************************************)
(* The conversation handlers as handlers.                                  *)
(***************************************************************************)
\* res.json / res.status(..).json: the handler answers and is over.
ConvRespond(p, jb, response, lg) ==
  /\ pc' = [pc EXCEPT ![p] = "done"]
  /\ job' = [job EXCEPT ![p] = jb]
  /\ eng' = [eng EXCEPT ![p] = NoFrame]
  /\ res' = [res EXCEPT ![p] = response]
  /\ log' = [log EXCEPT ![p] = lg]
  /\ UNCHANGED <<out, sent>>

\* An exception outside every try: the handler is over without an answer.
ConvCrash(p, jb) ==
  /\ pc' = [pc EXCEPT ![p] = "crashed"]
  /\ job' = [job EXCEPT ![p] = jb]
  /\ UNCHANGED <<eng, out, res, log, sent>>

\* await anthropic.messages.create(...)
ConvSend(p, jb, messages, lg) ==
  /\ pc' = [pc EXCEPT ![p] = "llm"]
  /\ job' = [job EXCEPT ![p] = jb]
  /\ eng' = [eng EXCEPT ![p] = NoFrame]
  /\ sent' = [sent EXCEPT ![p] = Request(jb.system, messages)]
  /\ log' = [log EXCEPT ![p] = Append(lg, "llm")]
  /\ UNCHANGED <<out, res>>

ConvStart(entry, payload, messages) ==
  ConvJob(entry, payload, "first", systemMessageOf(messages),
          claudeMessagesOf(messages), NoCompletion, NoBlock)

\* handleConversation up to its first await.
Conversation(p, payload) ==
  /\ pc[p] = "idle"
  /\ job[p].entry = "none"
  /\ IF payload.kind # "array" \/ Len(payload.turns) = 0
     THEN ConvRespond(p, ConvStart("conversation", payload, <<>>),
                      ErrorResponse(400, NoValidMessagesText), <<>>)
     ELSE IF Len(claudeMessagesOf(payload.turns)) = 0
     THEN ConvRespond(p, ConvStart("conversation", payload, payload.turns),
                      ErrorResponse(400, NoTurnsText), <<>>)
     ELSE ConvSend(p, ConvStart("conversation", payload, payload.turns),
                   claudeMessagesOf(payload.turns), <<>>)
  /\ UNCHANGED <<calendar, nextId, zone>>

\* The webhook of part_002 up to its first await; payload is
\* message?.messagesOpenAIFormatted, and a string has no filter method.
Vapi(p, payload) ==
  /\ pc[p] = "idle"
  /\ job[p].entry = "none"
  /\ IF payload.kind = "string"
     THEN ConvCrash(p, ConvStart("vapi", payload, <<>>))
     ELSE ConvSend(p, ConvStart("vapi", payload, payload.turns),
                   claudeMessagesOf(payload.turns), <<>>)
  /\ UNCHANGED <<calendar, nextId, zone>>

\* The tool result is there: the second create call.
ConvToolDone(p, jb, toolResult, lg) ==
  ConvSend(p, [jb EXCEPT !.step = "final"],
           finalMessages(jb.claudeMessages, jb.response, jb.toolUse, toolResult), lg)

\* The engine was called and ran to r.
ConvEngineCalled(p, jb, fn, r, lg) ==
  IF r.await = "none"
  THEN ConvToolDone(p, jb, toolResultOf(jb.entry, fn, jb.toolUse.input, r.value), lg)
  ELSE /\ pc' = [pc EXCEPT ![p] = r.await]
       /\ job' = [job EXCEPT ![p] = jb]
       /\ eng' = [eng EXCEPT ![p] =
                    Frame(fn, jb.toolUse.input.summary, jb.toolUse.input.date,
                          jb.toolUse.input.start_time, jb.toolUse.input.end_time,
                          r.timeMin, r.timeMax)]
       /\ log' = [log EXCEPT ![p] = Append(lg, r.await)]
       /\ UNCHANGED <<out, res, sent>>

\* The branch of stop_reason === 'tool_use', with toolUse found or not;
\* toolUse.name of undefined throws into the catch of the handler.
ConvDispatch(p, jb, lg) ==
  IF jb.toolUse.type = "none"
  THEN ConvRespond(p, jb, ErrorResponse(500, TypeErrorMessage), lg)
  ELSE IF jb.toolUse.name = "check_availability"
  THEN ConvEngineCalled(p, jb, "checkAvailabilityOAuth",
         checkAvailabilityOAuthTry(jb.toolUse.input.date, jb.toolUse.input.start_time,
                                   jb.toolUse.input.end_time, zone), lg)
  ELSE IF jb.toolUse.name = "book_appointment"
  THEN ConvEngineCalled(p, jb, "bookAppointmentOAuth",
         bookAppointmentOAuthTry(jb.toolUse.input.summary, jb.toolUse.input.date,
                                 jb.toolUse.input.start_time,
                                 jb.toolUse.input.end_time, zone), lg)
  ELSE ConvToolDone(p, jb, UndefinedResult, lg)

\* A variant that dispatches the tool whatever the stop reason is.
FirstCompletionEager(p, response, lg) ==
  ConvDispatch(p, [job[p] EXCEPT !.response = response,
                                 !.toolUse = find(response.content, "tool_use", 1)], lg)

\* The first create call returned response.
FirstCompletion(p, response, lg) ==
  IF response.stop_reason = "tool_use"
  THEN ConvDispatch(p, [job[p] EXCEPT !.response = response,
                                      !.toolUse = find(response.content, "tool_use", 1)],
                    lg)
  ELSE ConvRespond(p, [job[p] EXCEPT !.response = response],
                   SuccessResponse(job[p].entry, replyOf(response.content, DirectFallback)),
                   lg)

\* The second create call returned finalResponse.
FinalCompletion(p, finalResponse, lg) ==
  ConvRespond(p, job[p],
              SuccessResponse(job[p].entry, replyOf(finalResponse.content, FinalFallback)),
              lg)

LlmReturns(p, completion) ==
  /\ pc[p] = "llm"
  /\ IF job[p].step = "first"
     THEN FirstCompletion(p, completion, Append(log[p], "llm.ok"))
     ELSE FinalCompletion(p, completion, Append(log[p], "llm.ok"))
  /\ UNCHANGED <<calendar, nextId, zone>>

\* A variant that sends the request again when a create call failed.
LlmFailsRetry(p) ==
  /\ pc[p] = "llm"
  /\ ConvSend(p, job[p], sent[p].messages, Append(log[p], "llm.fail"))
  /\ UNCHANGED <<calendar, nextId, zone>>

\* A variant whose catch takes the event the request inserted out of the
\* calendar again before it answers.
LlmFailsUndo(p) ==
  /\ pc[p] = "llm"
  /\ ConvRespond(p, job[p], ErrorResponse(500, LlmErrorMessage),
                 Append(log[p], "llm.fail"))
  /\ calendar' =
       IF \E k \in 1..Len(log[p]) : log[p][k] = "insert.ok"
       THEN { e \in calendar :
                e.id # sent[p].messages[Len(sent[p].messages)].content[1].content.value.eventId }
       ELSE calendar
  /\ UNCHANGED <<nextId, zone>>

\* Either create call failed: the catch of the handler answers.
LlmFails(p) ==
  /\ pc[p] = "llm"
  /\ ConvRespond(p, job[p], ErrorResponse(500, LlmErrorMessage),
                 Append(log[p], "llm.fail"))
  /\ UNCHANGED <<calendar, nextId, zone>>

\* The engine call of the tool returned v.
ConvResume(p, failed, v) ==
  ConvToolDone(p, job[p], toolResultOf(job[p].entry, eng[p].fn, job[p].toolUse.input, v),
               Append(log[p], Answered(p, failed)))

\* The engine call of p returned v; its caller goes on.
Deliver(p, asked, failed, seen, items, v) ==
  IF job[p].entry = "direct"
  THEN /\ DirectReturn(p, eng[p], asked, failed, seen, items, v)
       /\ log' = [log EXCEPT ![p] = Append(log[p], Answered(p, failed))]
       /\ UNCHANGED <<job, res, sent>>
  ELSE IF job[p].entry = "webhook"
  THEN WebhookResume(p, failed, v)
  ELSE ConvResume(p, failed, v)

ListReturns(p, items) ==
  /\ pc[p] = "list"
  /\ items \in ListAnswers(calendar, eng[p].timeMin, eng[p].timeMax)
  /\ Deliver(p, "list", FALSE, calendar, items, EngineThenList(eng[p], items))
  /\ UNCHANGED <<calendar, nextId, zone>>

ListFails(p) ==
  /\ pc[p] = "list"
  /\ Deliver(p, "list", TRUE, calendar, {},
             EngineCatch(eng[p].fn, Thrown(RemoteErrorMessage, <<>>)))
  /\ UNCHANGED <<calendar, nextId, zone>>

\* A variant in which the store refuses an event that overlaps a stored one.
InsertReturnsExclusive(p) ==
  /\ pc[p] = "insert"
  /\ nextId <= MaxEvents
  /\ \A e \in calendar : ~(e.start < eng[p].timeMax /\ eng[p].timeMin < e.end)
  /\ calendar' = calendar \cup {Event(nextId, eng[p].timeMin, eng[p].timeMax)}
  /\ nextId' = nextId + 1
  /\ Deliver(p, "insert", FALSE, calendar', {}, EngineThenInsert(eng[p], nextId))
  /\ UNCHANGED zone

InsertReturns(p) ==
  /\ pc[p] = "insert"
  /\ nextId <= MaxEvents
  /\ calendar' = calendar \cup {Event(nextId, eng[p].timeMin, eng[p].timeMax)}
  /\ nextId' = nextId + 1
  /\ Deliver(p, "insert", FALSE, calendar', {}, EngineThenInsert(eng[p], nextId))
  /\ UNCHANGED zone

InsertFails(p) ==
  /\ pc[p] = "insert"
  /\ Deliver(p, "insert", TRUE, calendar, {},
             EngineCatch(eng[p].fn, Thrown(RemoteErrorMessage, <<>>)))
  /\ UNCHANGED <<calendar, nextId, zone>>

Summary == "Haircut"

Next ==
  \/ \E e \in SeedEvents : ExternalInsert(e)
  \/ \E fn \in CheckFns \cup BookFns, r \in Requests :
       Call("p1", fn, Summary, r[1], r[2], r[3])
  \/ \E body \in WebhookBodies : Webhook("p1", body)
  \/ \E payload \in MessagesSamples : Conversation("p1", payload)
  \/ \E payload \in MessagesSamples : Vapi("p1", payload)
  \/ \E completion \in CompletionSamples : LlmReturns("p1", completion)
  \/ LlmFails("p1")
  \/ \E items \in SUBSET calendar : ListReturns("p1", items)
  \/ ListFails("p1")
  \/ InsertReturns("p1")
  \/ InsertFails("p1")

Spec == Init /\ [][Next]_vars

(***************************************************************************)
(* Two callers at once, each checking and booking windows that overlap one *)
(* another, and nobody else writing to the calendar.                       *)
(***************************************************************************)
RaceRequests == {<<KnownDate, T0900, T1000>>, <<KnownDate, T930, T1030>>}

RaceFns == {"checkAvailability", "bookAppointment"}

NextRace ==
  \/ \E p \in Proc, fn \in RaceFns, r \in RaceRequests :
       Call(p, fn, Summary, r[1], r[2], r[3])
  \/ \E p \in Proc, items \in SUBSET calendar : ListReturns(p, items)
  \/ \E p \in Proc : ListFails(p)
  \/ \E p \in Proc : InsertReturns(p)
  \/ \E p \in Proc : InsertFails(p)

SpecRace == Init /\ [][NextRace]_vars

(***************************************************************************)
(* handleConversation on every list of up to MaxTurns turns, up to its     *)
(* first create call: the canonicalization of the list is what it sends.   *)
(***************************************************************************)
NextCanon == \E turns \in TurnLists : Conversation("p1", Messages("array", turns))

SpecCanon == Init /\ [][NextCanon]_vars

(***************************************************************************)
(* The claims about the engines, under Spec.                               *)
(***************************************************************************)
\* A call of fn by p has returned or thrown, and out[p] is what it gave.
Completed(p, fn) == pc[p] = "idle" /\ out[p].fn = fn

\* The half-open overlap rule of the specification, between an event and the
\* window of a returned call.
TrulyOverlaps(e, o) == e.start < o.timeMax /\ o.timeMin < e.end

\* An event that only shares a boundary instant with the window.
OnlyTouches(e, o) == e.end = o.timeMin \/ e.start = o.timeMax

\* C1: whenever a checkAvailability (of part_001 or of index.js) returns after
\* a list query that completed without error, available is false if and only
\* if some event of the calendar, as it was when the query was answered,
\* satisfies E.start < W.end and W.start < E.end; an event that only touches
\* the window leaves the slot available even when the query returned it.
C1_OverlapRule ==
  \A p \in Proc :
    (/\ \E fn \in CheckFns : Completed(p, fn)
     /\ out[p].asked = "list" /\ ~out[p].failed)
    => (out[p].value.available = FALSE
          <=> \E e \in out[p].seen : TrulyOverlaps(e, out[p]))

\* The rule as the engine of part_001 keeps it (the engine with the local
\* recheck), for comparison with C1.
OverlapRuleOfService ==
  \A p \in Proc :
    (Completed(p, "checkAvailability") /\ out[p].asked = "list" /\ ~out[p].failed)
    => (out[p].value.available = FALSE
          <=> \E e \in out[p].seen : TrulyOverlaps(e, out[p]))

\* A state where the list returned an event that only touches the window and
\* the engine of part_001 still answered available.
BoundaryEventListed ==
  \E p \in Proc :
    /\ Completed(p, "checkAvailability") /\ out[p].asked = "list" /\ ~out[p].failed
    /\ out[p].value.available
    /\ \E e \in out[p].items : OnlyTouches(e, out[p])

\* C2: a checkAvailability(d, s, e) that returns right after a successful
\* bookAppointment(summary, d, s, e) of the same caller answers
\* available:false, for every window the booking accepted.
C2_BookThenCheck ==
  \A p \in Proc :
    (Completed(p, "checkAvailability") /\ job[p].afterBooking)
    => out[p].value.available = FALSE

\* The same for the windows whose start is strictly before their end.
BookThenCheckProperWindow ==
  \A p \in Proc :
    (/\ Completed(p, "checkAvailability") /\ job[p].afterBooking
     /\ out[p].timeMin < out[p].timeMax)
    => out[p].value.available = FALSE

\* The time strings of Requests that are no time of day.
InvalidTimes == {T2500, T13PM, Undefined}

\* C7: checkAvailability never raises to its caller, and whenever it fails
\* (a time string or a date that cannot be composed, or a list call that
\* fails) it returns available:false with the diagnostic message.
C7_CheckNeverRaises ==
  \A p \in Proc :
    (out[p].fn = "checkAvailability")
    => /\ ~out[p].raised
       /\ (pc[p] = "idle" /\ (out[p].asked = "none" \/ out[p].failed))
          => /\ out[p].value.available = FALSE
             /\ out[p].value.message.text = CheckFailedText
             /\ out[p].value.message.error # ""

\* A checkAvailability with a missing start time has returned.
C7_Witness ==
  \E p \in Proc :
    /\ Completed(p, "checkAvailability")
    /\ out[p].startTime = Undefined
    /\ out[p].value.available = FALSE

\* C8: bookAppointment never raises to its caller; every failure is returned
\* as success:false with the failure message; and when a time string is
\* invalid no insert is submitted: the call issues no remote call at all.
C8_BookNeverRaises ==
  \A p \in Proc :
    (out[p].fn = "bookAppointment")
    => /\ ~out[p].raised
       /\ (pc[p] = "idle" /\ (out[p].asked = "none" \/ out[p].failed))
          => /\ out[p].value.success = FALSE
             /\ out[p].value.message.text = BookFailedText
             /\ out[p].value.message.error # ""
       /\ (pc[p] = "idle" /\ (out[p].startTime \in InvalidTimes
                              \/ out[p].endTime \in InvalidTimes))
          => /\ out[p].asked = "none"
             /\ log[p] = <<>>
             /\ out[p].value.success = FALSE

\* A bookAppointment whose start time normalizes to 25:00 has returned.
C8_Witness ==
  \E p \in Proc :
    /\ Completed(p, "bookAppointment")
    /\ out[p].startTime = T13PM
    /\ out[p].value.success = FALSE

(***************************************************************************)
(* The claims about the tool-call webhook, under Spec.                     *)
(***************************************************************************)
\* C3: whenever the tool-call webhook answers a request that carried a
\* non-empty list of tool calls, the results list of the response has exactly
\* one entry per tool call of the request, and the i-th entry carries,
\* unchanged, the id of the i-th tool call: none missing, doubled or made up.
C3_OneResultPerInvocation ==
  \A p \in Proc :
    (job[p].entry = "webhook" /\ Len(job[p].toolCalls) > 0 /\ res[p].kind = "results")
    => /\ Len(res[p].results) = Len(job[p].toolCalls)
       /\ \A i \in 1..Len(job[p].toolCalls) :
            res[p].results[i].toolCallId = job[p].toolCalls[i].id

\* A batch of a tool call with arguments that are no JSON and a booking that
\* went through the calendar has been answered with two results.
C3_Witness ==
  \E p \in Proc :
    /\ job[p].entry = "webhook" /\ res[p].kind = "results"
    /\ Len(res[p].results) = 2
    /\ job[p].toolCalls[1].arguments.json = "malformed"
    /\ job[p].toolCalls[2].name = "book_appointment"
    /\ log[p] = <<"insert", "insert.ok">>

\* A tool call the loop cannot read: no function, or arguments that are a
\* string and no JSON.
Malformed(toolCall) ==
  \/ ~toolCall.hasFunction
  \/ (toolCall.arguments.form = "string" /\ toolCall.arguments.json = "malformed")

\* C4: a batch with a malformed tool call never fails as a whole: once the
\* handler is over, the request has been answered with the results envelope,
\* with one result per tool call, and the malformed one has an error text.
C4_MalformedNeverFailsBatch ==
  \A p \in Proc :
    (/\ job[p].entry = "webhook" /\ Len(job[p].toolCalls) > 0
     /\ pc[p] \in {"done", "crashed"})
    => /\ res[p].kind = "results"
       /\ Len(res[p].results) = Len(job[p].toolCalls)
       /\ \A i \in 1..Len(job[p].toolCalls) :
            Malformed(job[p].toolCalls[i]) => res[p].results[i].result.text = ErrorText

\* The same for the batches in which every tool call has a function.
MalformedArgumentsNeverFailBatch ==
  \A p \in Proc :
    (/\ job[p].entry = "webhook" /\ Len(job[p].toolCalls) > 0
     /\ pc[p] \in {"done", "crashed"}
     /\ \A i \in 1..Len(job[p].toolCalls) : job[p].toolCalls[i].hasFunction)
    => /\ res[p].kind = "results"
       /\ Len(res[p].results) = Len(job[p].toolCalls)
       /\ \A i \in 1..Len(job[p].toolCalls) :
            Malformed(job[p].toolCalls[i]) => res[p].results[i].result.text = ErrorText

ConversationEntries == {"conversation", "vapi"}

\* The tool result that the second create call of p carries.
SentToolResult(p) == sent[p].messages[Len(sent[p].messages)].content[1]

\* C5: a tool call whose name is neither check_availability nor
\* book_appointment gets a result whose text says that the name is unknown:
\* in the results of the tool-call webhook, and in the tool result that a
\* conversation handler sends to the model in its second call.
C5_UnknownToolAnswered ==
  \A p \in Proc :
    /\ (job[p].entry = "webhook" /\ res[p].kind = "results")
       => \A i \in 1..Len(res[p].results) :
            (job[p].toolCalls[i].name \notin Tools)
            => res[p].results[i].result.text = UnknownToolText
    /\ (/\ job[p].entry \in ConversationEntries /\ job[p].step = "final"
        /\ job[p].toolUse.name \notin Tools)
       => /\ SentToolResult(p).content.json = "object"
          /\ SentToolResult(p).content.value.text = UnknownToolText

\* The part of C5 about the tool-call webhook.
UnknownToolAnsweredByWebhook ==
  \A p \in Proc :
    (job[p].entry = "webhook" /\ res[p].kind = "results")
    => \A i \in 1..Len(res[p].results) :
         (job[p].toolCalls[i].name \notin Tools)
         => res[p].results[i].result.text = UnknownToolText

(***************************************************************************)
(* Two concurrent callers, under SpecRace.                                 *)
(***************************************************************************)
\* C6: bookAppointment checks nothing, locks nothing and undoes nothing: the
\* only remote call of a booking is its insert, the insert goes through
\* whatever the calendar holds, and the event of a booking that returned
\* success stays in the calendar, so that two callers may both succeed with
\* windows that overlap.
C6_BookingUnguarded ==
  \A p \in Proc :
    /\ (pc[p] # "idle" /\ eng[p].fn = "bookAppointment") => log[p] = <<"insert">>
    /\ (pc[p] = "insert" /\ nextId <= MaxEvents) => ENABLED InsertReturns(p)
    /\ (Completed(p, "bookAppointment") /\ out[p].value.success)
       => /\ log[p] = <<"insert", "insert.ok">>
          /\ \E e \in calendar : e.start = out[p].timeMin /\ e.end = out[p].timeMax

\* Both callers hold success:true for windows that overlap, each after a
\* check of its own that found its window free, and the calendar holds two
\* events that overlap.
C6_Witness ==
  /\ \A p \in Proc : Completed(p, "bookAppointment") /\ out[p].value.success
  /\ \A p \in Proc : job[p].afterCheck
  /\ out["p1"].timeMin < out["p2"].timeMax /\ out["p2"].timeMin < out["p1"].timeMax
  /\ \E e1, e2 \in calendar :
       e1.id # e2.id /\ e1.start < e2.end /\ e2.start < e1.end

(***************************************************************************)
(* The claims about the conversation handlers, under Spec.                 *)
(***************************************************************************)
\* A payload that yields no turn for the model.
NoUsableTurns(payload) ==
  payload.kind # "array" \/ Len(claudeMessagesOf(payload.turns)) = 0

\* C9: a conversational request whose payload yields no usable turn (the
\* messages missing, no list, empty, or system turns only) is answered with
\* a client error and makes no remote call, at both conversation handlers.
C9_EmptyConversationRejected ==
  \A p \in Proc :
    (job[p].entry \in ConversationEntries /\ NoUsableTurns(job[p].payload))
    => log[p] = <<>> /\ res[p].status = 400

\* The same for handleConversation alone.
EmptyConversationRejectedByHandler ==
  \A p \in Proc :
    (job[p].entry = "conversation" /\ NoUsableTurns(job[p].payload))
    => log[p] = <<>> /\ res[p].status = 400

\* The remote calls of one conversational request in the orders that the
\* state machine of the specification allows, with their answers.
Answers(call) == {call \o ".ok", call \o ".fail"}

ConversationTraces ==
  {<<"llm", a>> : a \in Answers("llm")}
    \cup {<<"llm", "llm.ok", "llm", a>> : a \in Answers("llm")}
    \cup {<<"llm", "llm.ok", "list", c, "llm", a>> :
            c \in Answers("list"), a \in Answers("llm")}
    \cup {<<"llm", "llm.ok", "insert", c, "llm", a>> :
            c \in Answers("insert"), a \in Answers("llm")}

IsPrefix(s, t) == Len(s) <= Len(t) /\ SubSeq(t, 1, Len(s)) = s

LlmCalls(lg) == Cardinality({i \in 1..Len(lg) : lg[i] = "llm"})

\* C10: the remote calls of a conversational request come in the order of
\* the state machine: a first create call; then, only when its completion
\* has the stop reason tool_use, at most one calendar call and, once that
\* call has been answered, a second create call; never more than two create
\* calls; and a reply only after the last create call has returned.
C10_StepOrder ==
  \A p \in Proc :
    (job[p].entry \in ConversationEntries)
    => /\ \E t \in ConversationTraces : IsPrefix(log[p], t)
       /\ LlmCalls(log[p]) <= 2
       /\ (Len(log[p]) >= 3) => /\ job[p].response.stop_reason = "tool_use"
                                /\ job[p].toolUse.type = "tool_use"
       /\ (pc[p] \in {"llm", "list", "insert"}) => log[p][Len(log[p])] = pc[p]
       /\ (job[p].step = "final")
          => /\ Len(log[p]) >= 3
             /\ log[p][Len(log[p]) - (IF pc[p] = "llm" THEN 1 ELSE 2)]
                  \in {"llm.ok"} \cup Answers("list") \cup Answers("insert")
       /\ (res[p].status = 200)
          => /\ pc[p] = "done"
             /\ Len(log[p]) \in {2, 4, 6}
             /\ log[p][Len(log[p])] = "llm.ok"

\* handleConversation has answered after a check_availability that listed
\* the calendar between its two create calls.
C10_Witness ==
  \E p \in Proc :
    /\ job[p].entry = "conversation"
    /\ res[p].kind = "choices"
    /\ log[p] = <<"llm", "llm.ok", "list", "list.ok", "llm", "llm.ok">>

\* C11: a create call that fails, the first or the second, ends the request
\* with status 500 and the error message of the failed call; it is the last
\* remote call of the request: no create call and no calendar call follows.
C11_LlmFailureIsTerminal ==
  \A p \in Proc :
    (job[p].entry \in ConversationEntries)
    => \A k \in 1..Len(log[p]) :
         (log[p][k] = "llm.fail")
         => /\ k = Len(log[p])
            /\ pc[p] = "done"
            /\ res[p].status = 500
            /\ res[p].kind = "error"
            /\ res[p].error = LlmErrorMessage

\* handleConversation answered 500 after its second create call failed, the
\* booking between the two calls having gone through.
C11_Witness ==
  \E p \in Proc :
    /\ job[p].entry = "conversation"
    /\ log[p] = <<"llm", "llm.ok", "insert", "insert.ok", "llm", "llm.fail">>
    /\ res[p].status = 500

\* The turns of the request of p as the handler read them.
TurnsOf(p) == job[p].payload.turns

\* C12: the second create call carries the turns of the first call, unchanged
\* and in order, then one assistant turn with the content of the first
\* completion as it came, then one user turn with one tool_result block that
\* bears the id of the tool_use block that was dispatched (the first of the
\* completion), under the system prompt and the tools of the first call.
C12_SecondCallMessages ==
  \A p \in Proc :
    (job[p].entry \in ConversationEntries /\ job[p].step = "final")
    => /\ sent[p].system = systemMessageOf(TurnsOf(p))
       /\ sent[p].tools = Tools
       /\ Len(sent[p].messages) = Len(claudeMessagesOf(TurnsOf(p))) + 2
       /\ SubSeq(sent[p].messages, 1, Len(sent[p].messages) - 2)
            = claudeMessagesOf(TurnsOf(p))
       /\ sent[p].messages[Len(sent[p].messages) - 1]
            = Turn("assistant", job[p].response.content)
       /\ sent[p].messages[Len(sent[p].messages)].role = "user"
       /\ Len(sent[p].messages[Len(sent[p].messages)].content) = 1
       /\ SentToolResult(p).type = "tool_result"
       /\ SentToolResult(p).tool_use_id = find(job[p].response.content, "tool_use", 1).id
       /\ (job[p].toolUse.name \in Tools) => SentToolResult(p).content.json = "object"

\* The second create call of a request of four turns, the system turn third,
\* after a check_availability: three turns, the completion, the tool result.
C12_Witness ==
  \E p \in Proc :
    /\ job[p].entry = "conversation" /\ job[p].step = "final" /\ pc[p] = "llm"
    /\ Len(TurnsOf(p)) = 4
    /\ Len(sent[p].messages) = 5
    /\ SentToolResult(p).tool_use_id = "toolu_1"
    /\ SentToolResult(p).content.json = "object"

\* Whether the completion holds a tool_use block, and its first one.
HasToolUse(content) == \E i \in 1..Len(content) : content[i].type = "tool_use"

FirstToolUse(content) ==
  content[CHOOSE i \in 1..Len(content) :
            /\ content[i].type = "tool_use"
            /\ \A j \in 1..(i - 1) : content[j].type # "tool_use"]

CalendarCalls(lg) == Cardinality({i \in 1..Len(lg) : lg[i] \in {"list", "insert"}})

\* C13: of a completion that asks for tools, the first tool_use block is the
\* one dispatched, and the request makes at most one engine call, hence at
\* most one calendar call: a list when that block names check_availability,
\* an insert when it names book_appointment, with the input of that block;
\* when it names check_availability nothing is inserted into the calendar.
C13_FirstToolOnly ==
  \A p \in Proc :
    (job[p].entry \in ConversationEntries /\ Len(log[p]) >= 3)
    => /\ HasToolUse(job[p].response.content)
       /\ job[p].toolUse = FirstToolUse(job[p].response.content)
       /\ CalendarCalls(log[p]) <= 1
       /\ (log[p][3] = "list") => job[p].toolUse.name = "check_availability"
       /\ (log[p][3] = "insert") => job[p].toolUse.name = "book_appointment"
       /\ (pc[p] \in {"list", "insert"})
          => /\ eng[p].date = job[p].toolUse.input.date
             /\ eng[p].startTime = job[p].toolUse.input.start_time
             /\ eng[p].endTime = job[p].toolUse.input.end_time
       /\ (job[p].toolUse.name = "check_availability")
          => /\ \A k \in 1..Len(log[p]) : log[p][k] # "insert"
             /\ nextId = 1
             /\ calendar \subseteq SeedEvents

\* handleConversation has answered a completion of two tool_use blocks, a
\* check_availability and then a book_appointment, having listed only.
C13_Witness ==
  \E p \in Proc :
    /\ job[p].entry = "conversation" /\ res[p].kind = "choices"
    /\ Len(job[p].response.content) = 2
    /\ job[p].response.content[2].name = "book_appointment"
    /\ job[p].toolUse.id = "toolu_5"
    /\ log[p] = <<"llm", "llm.ok", "list", "list.ok", "llm", "llm.ok">>

\* The reply of a successful conversational response, as either handler
\* writes it.
ReplyOf(r) == IF r.kind = "choices" THEN r.content ELSE r.results[1].content

\* Whether the completion holds a text block.
HasTextBlock(content) == \E i \in 1..Len(content) : content[i].type = "text"

\* C14: every successful conversational response carries a reply that is
\* not the empty string.
C14_ReplyNeverEmpty ==
  \A p \in Proc :
    (job[p].entry \in ConversationEntries /\ res[p].status = 200)
    => ReplyOf(res[p]) # ""

\* The part of C14 about the direct path when the completion has no text
\* block: the reply is the fixed sentence.
FallbackWhenNoTextBlock ==
  \A p \in Proc :
    (/\ job[p].entry \in ConversationEntries /\ res[p].status = 200
     /\ job[p].step = "first" /\ ~HasTextBlock(job[p].response.content))
    => ReplyOf(res[p]) = DirectFallback

(***************************************************************************)
(* The claim about the canonicalization of the turns, under SpecCanon.     *)
(***************************************************************************)
IsSystem(m) == m.role = "system"
IsNoSystem(m) == m.role # "system"

SystemTurnsOf(turns) == SelectSeq(turns, IsSystem)
OtherTurnsOf(turns) == SelectSeq(turns, IsNoSystem)

\* The other turns in their order, every role but assistant folded to user.
Folded(turns) ==
  [i \in 1..Len(turns) |->
     Turn(IF turns[i].role = "assistant" THEN "assistant" ELSE "user", turns[i].content)]

\* The list with its system turns moved to the front.
SystemFirst(turns) == SystemTurnsOf(turns) \o OtherTurnsOf(turns)

\* handleConversation sent its first create call for a list with exactly
\* one system turn.
CanonicalizedOneSystem(p) ==
  /\ job[p].entry = "conversation" /\ job[p].step = "first" /\ pc[p] = "llm"
  /\ Len(SystemTurnsOf(TurnsOf(p))) = 1

\* What the canonicalization keeps whatever the content of the system turn:
\* no system turn among the turns sent, the other turns in their order with
\* their roles folded, and the same result with the system turn first.
CanonicalTurns(p) ==
  /\ \A i \in 1..Len(sent[p].messages) : sent[p].messages[i].role \in {"user", "assistant"}
  /\ sent[p].messages = Folded(OtherTurnsOf(TurnsOf(p)))
  /\ sent[p].system = systemMessageOf(SystemFirst(TurnsOf(p)))
  /\ sent[p].messages = claudeMessagesOf(SystemFirst(TurnsOf(p)))

\* C15 as stated: a list with a system turn at any position yields the
\* content of the system turn as the system prompt, and the other turns in
\* their order without the system turn, wherever the system turn was.
C15_CanonicalizeAsStated ==
  \A p \in Proc :
    CanonicalizedOneSystem(p)
    => /\ sent[p].system = SystemTurnsOf(TurnsOf(p))[1].content
       /\ CanonicalTurns(p)

\* C15: a list with a system turn at any position yields the content of the
\* system turn as the system prompt when that content is not empty, and the
\* default prompt when it is empty; and the other turns in their order
\* without the system turn, wherever the system turn was.
C15_Canonicalize ==
  \A p \in Proc :
    CanonicalizedOneSystem(p)
    => /\ sent[p].system =
            (IF SystemTurnsOf(TurnsOf(p))[1].content = "" THEN DefaultSystemMessage
             ELSE SystemTurnsOf(TurnsOf(p))[1].content)
       /\ CanonicalTurns(p)

\* The first create call of a list of three turns with the system turn last.
C15_Witness ==
  \E p \in Proc :
    /\ CanonicalizedOneSystem(p)
    /\ Len(TurnsOf(p)) = 3
    /\ TurnsOf(p)[3] = Turn("system", "Be brief.")
    /\ TurnsOf(p)[1].role = "tool"
    /\ sent[p].system = "Be brief."
    /\ Len(sent[p].messages) = 2

(***************************************************************************)
(* More claims about the tool-call webhook and the envelopes, under Spec.  *)
(***************************************************************************)
\* C16: a webhook body without tool calls (no message, no toolCalls, or an
\* empty list of them) is answered with {received: true}, which is neither
\* an error nor a results envelope, and makes no calendar call: nothing is
\* listed, nothing is inserted.
C16_PingAcknowledged ==
  \A p \in Proc :
    (job[p].entry = "webhook" /\ Len(job[p].toolCalls) = 0)
    => /\ pc[p] = "done"
       /\ res[p] = ReceivedResponse
       /\ res[p].status = 200 /\ res[p].kind = "received"
       /\ log[p] = <<>>
       /\ eng[p] = NoFrame
       /\ nextId = 1
       /\ calendar \subseteq SeedEvents

\* A body with a message and an empty list of tool calls has been answered.
C16_Witness ==
  \E p \in Proc :
    /\ job[p].entry = "webhook" /\ Len(job[p].toolCalls) = 0 /\ pc[p] = "done"
    /\ job[p].body.hasMessage /\ job[p].body.hasToolCalls
    /\ res[p].kind = "received"

\* C17: the envelope of a successful response is that of the request: a
\* request that carried a list of turns is answered with {choices}, a batch
\* of tool calls with {results}, at every entry point.
C17_EnvelopeMirrors ==
  \A p \in Proc :
    (res[p].status = 200)
    => /\ (job[p].entry \in ConversationEntries) => res[p].kind = "choices"
       /\ (job[p].entry = "webhook" /\ Len(job[p].toolCalls) > 0)
          => res[p].kind = "results"

\* The same for the entry points of part_001 alone: handleConversation and
\* the tool-call webhook.
EnvelopeMirrorsInPart001 ==
  \A p \in Proc :
    (res[p].status = 200)
    => /\ (job[p].entry = "conversation") => res[p].kind = "choices"
       /\ (job[p].entry = "webhook" /\ Len(job[p].toolCalls) > 0)
          => res[p].kind = "results"

(***************************************************************************)
(* The claim about the windows that reach the calendar, under Spec.        *)
(***************************************************************************)
\* C18: every window that checkAvailability sends to events.list and every
\* event that bookAppointment sends to events.insert has its start strictly
\* before its end.
C18_WindowsProper ==
  \A p \in Proc :
    /\ (pc[p] = "list" /\ eng[p].fn = "checkAvailability")
       => eng[p].timeMin < eng[p].timeMax
    /\ (pc[p] = "insert" /\ eng[p].fn = "bookAppointment")
       => eng[p].timeMin < eng[p].timeMax

\* What does hold of them: both bounds are instants, never an Invalid Date.
WindowsAreInstants ==
  \A p \in Proc :
    (pc[p] \in {"list", "insert"} /\ eng[p].fn \in {"checkAvailability", "bookAppointment"})
    => eng[p].timeMin # NaN /\ eng[p].timeMax # NaN

(***************************************************************************)
(* The two time normalizers on their own: a caller hands a text to         *)
(* normalizeTime of the service-account variant or to formatTime of        *)
(* index.js and keeps what the call did.                                   *)
(***************************************************************************)
HourTexts ==
  { <<"0">>, <<"7">>, <<"9">>, <<"0", "9">>, <<"1", "2">>, <<"1", "3">>,
    <<"2", "3">>, <<"2", "4">>, <<"2", "5">>, <<"9", "9">> }

MinuteTexts ==
  { <<>>, <<":", "0", "0">>, <<":", "3", "0">>, <<":", "9", "9">>, <<":", "5">> }

PeriodTexts ==
  { <<>>, <<" ", "A", "M">>, <<" ", "P", "M">>, <<"p", "m">>, <<" ", "x", "m">> }

TimeTexts ==
  { h \o m \o s : h \in HourTexts, m \in MinuteTexts, s \in PeriodTexts }
    \cup { <<>>, <<"n", "o", "o", "n">> }

\* What the caller keeps of one call of a normalizer.
Normalized(fn, time, r) == [fn |-> fn, time |-> time, value |-> r]

Normalize(p, time) ==
  /\ pc[p] = "idle"
  /\ job[p].entry = "none"
  /\ out' = [out EXCEPT ![p] = Normalized("normalizeTime", time, normalizeTime(time))]
  /\ UNCHANGED <<calendar, nextId, zone, pc, job, eng, res, log, sent>>

Format(p, time) ==
  /\ pc[p] = "idle"
  /\ job[p].entry = "none"
  /\ out' = [out EXCEPT ![p] = Normalized("formatTime", time, formatTime(time))]
  /\ UNCHANGED <<calendar, nextId, zone, pc, job, eng, res, log, sent>>

NextTime ==
  \/ \E time \in TimeTexts : Normalize("p1", time)
  \/ \E time \in TimeTexts : Format("p1", time)

SpecTime == Init /\ [][NextTime]_vars

\* The calls of a normalizer that returned.
NormalizerReturned(p, fn) == out[p].fn = fn /\ ~out[p].value.threw

\* C19: normalizeTime is idempotent: whenever a normalizer returned a value
\* for a text, the same normalizer applied to that value returns it again.
C19_Idempotent ==
  /\ NormalizerReturned("p1", "normalizeTime")
       => normalizeTime(out["p1"].value.value) = out["p1"].value
  /\ NormalizerReturned("p1", "formatTime")
       => formatTime(out["p1"].value.value) = out["p1"].value

\* formatTime of index.js alone is idempotent: what it returns is a text it
\* returns unchanged.
FormatTimeIdempotent ==
  NormalizerReturned("p1", "formatTime")
    => formatTime(out["p1"].value.value) = out["p1"].value

\* normalizeTime is idempotent on the texts it maps to an hour below 24.
NormalizeTimeIdempotentBelow24 ==
  ( /\ NormalizerReturned("p1", "normalizeTime")
    /\ parseInt(SubSeq(out["p1"].value.value, 1,
                       Len(out["p1"].value.value) - 3)) < 24 )
    => normalizeTime(out["p1"].value.value) = out["p1"].value

\* The forms of time the normalizer is meant to take: HH:MM or H:MM with an
\* hour below 24, or a 12-hour form with an AM or PM suffix.
AcceptedForm(time) ==
  \/ /\ Len(time) \in {4, 5}
     /\ \A k \in 1 .. (Len(time) - 3) : IsDigitAt(time, k)
     /\ time[Len(time) - 2] = ":"
     /\ IsDigitAt(time, Len(time) - 1) /\ IsDigitAt(time, Len(time))
     /\ parseInt(SubSeq(time, 1, Len(time) - 3)) < 24
  \/ \E i \in 1 .. Len(time), nd \in {1, 2}, colon \in BOOLEAN, mins \in BOOLEAN :
       AmPmTry(time, i, nd, colon, mins).matched

\* The failure InvalidTimeFormat that names the text.
InvalidTimeFormat(time) == Thrown(InvalidTimeFormatMessage, time)

\* C20: a normalizer fails with InvalidTimeFormat, naming the text, on every
\* text that has none of the accepted forms; in particular 25:00 fails and is
\* never returned.
C20_RejectsOtherForms ==
  ( /\ out["p1"].fn \in {"normalizeTime", "formatTime"}
    /\ ~AcceptedForm(out["p1"].time) )
    => out["p1"].value = InvalidTimeFormat(out["p1"].time)

\* normalizeTime of the service-account variant alone fails so.
NormalizeTimeRejectsOtherForms ==
  ( /\ out["p1"].fn = "normalizeTime"
    /\ ~AcceptedForm(out["p1"].time) )
    => out["p1"].value = InvalidTimeFormat(out["p1"].time)

\* formatTime of index.js never fails with InvalidTimeFormat: it returns a
\* text of no accepted form as it is.
FormatTimeReturnsOtherForms ==
  ( /\ out["p1"].fn = "formatTime"
    /\ ~AcceptedForm(out["p1"].time) )
    => out["p1"].value = Returned(out["p1"].time)

\* No time of hour 25 reaches the calendar: a call whose start or end is
\* 25:00 awaits neither the list nor the insert.
Hour25NeverPassedOn ==
  \A p \in Proc :
    (eng[p].fn # "none" /\ (eng[p].startTime = T2500 \/ eng[p].endTime = T2500))
      => pc[p] \notin {"list", "insert"}

\* A canonical 24-hour time: two digits of hour in 00..23, a colon and two
\* digits of minute in 00..59.
Canonical(t) ==
  /\ Len(t) = 5
  /\ IsDigitAt(t, 1) /\ IsDigitAt(t, 2) /\ t[3] = ":"
  /\ IsDigitAt(t, 4) /\ IsDigitAt(t, 5)
  /\ parseInt(SubSeq(t, 1, 2)) < 24
  /\ parseInt(SubSeq(t, 4, 5)) < 60

\* C21: whenever normalizeTime returns a value, the value is a canonical
\* 24-hour time, hour in 00..23 and minute in 00..59, for every text, the
\* 12-hour forms of hour above 12 or minute above 59 included.
C21_ReturnsCanonical ==
  NormalizerReturned("p1", "normalizeTime") => Canonical(out["p1"].value.value)

\* What normalizeTime does keep: the value it returns is at least two digits
\* of hour, a colon and two digits of minute.
NormalizeTimeReturnsDigits ==
  NormalizerReturned("p1", "normalizeTime")
    => /\ Len(out["p1"].value.value) >= 5
       /\ \A k \in 1 .. Len(out["p1"].value.value) :
            IF k = Len(out["p1"].value.value) - 2
            THEN out["p1"].value.value[k] = ":"
            ELSE IsDigitAt(out["p1"].value.value, k)

\* Where the value normalizeTime returns has an hour below 24 and a minute
\* below 60, it is written canonically, the hour padded to two digits.
NormalizeTimeCanonicalInRange ==
  ( /\ NormalizerReturned("p1", "normalizeTime")
    /\ parseInt(SubSeq(out["p1"].value.value, 1,
                       Len(out["p1"].value.value) - 3)) < 24
    /\ parseInt(SubSeq(out["p1"].value.value,
                       Len(out["p1"].value.value) - 1,
                       Len(out["p1"].value.value))) < 60 )
    => Canonical(out["p1"].value.value)

\* p made a request to the tool-call webhook or to handleConversation.
Requested(p) == job[p].entry \in {"webhook", "conversation"}

\* The request of p has its HTTP response.
Responded(p) == res[p].kind # "none"

\* The handler of p waits for a remote call, which returns or fails.
Awaiting(p) == pc[p] \in {"llm", "list", "insert"}

\* C22: every request to the tool-call webhook and to handleConversation
\* receives exactly one HTTP response in the end, whatever the payload and
\* whatever the remote calls do: a handler that waits for no remote call any
\* more has sent the response of its request, so that no path ends without
\* one.
C22_ExactlyOneResponse ==
  \A p \in Proc : Requested(p) => (Awaiting(p) \/ Responded(p))

\* No handler sends a second response: a response, once sent, stays as it is.
ResponseSentOnce ==
  [][\A p \in Proc : Responded(p) => res'[p] = res[p]]_vars

\* A handler that has answered is over: it waits for no remote call.
RespondedIsOver ==
  \A p \in Proc : (Requested(p) /\ Responded(p)) => pc[p] = "done"

\* Every request to handleConversation is answered once the handler waits
\* for nothing.
ConversationAnswered ==
  \A p \in Proc : (job[p].entry = "conversation") => (Awaiting(p) \/ Responded(p))

\* Every request to the webhook whose tool calls all have a function field
\* is answered once the handler waits for nothing, the ones without an id
\* included.
BatchWithFunctionsAnswered ==
  \A p \in Proc :
    ( /\ job[p].entry = "webhook"
      /\ \A i \in 1..Len(job[p].toolCalls) : job[p].toolCalls[i].hasFunction )
      => (Awaiting(p) \/ Responded(p))

\* A batch with a tool call that has no id has been answered.
BatchWithoutIdAnswered ==
  \E p \in Proc :
    /\ job[p].entry = "webhook" /\ Responded(p)
    /\ \E i \in 1..Len(job[p].toolCalls) : job[p].toolCalls[i].id = "undefined"

\* The webhook is over without a response: a tool call had no function field.
WebhookOverUnanswered ==
  \E p \in Proc :
    /\ job[p].entry = "webhook" /\ pc[p] = "crashed" /\ ~Responded(p)
    /\ \E i \in 1..Len(job[p].toolCalls) : ~job[p].toolCalls[i].hasFunction

\* The insert call of the request of p returned.
Inserted(p) == \E k \in 1..Len(log[p]) : log[p][k] = "insert.ok"

\* The id of the event that the tool result of p names.
InsertedId(p) == SentToolResult(p).content.value.eventId

\* The second create call of p failed after its insert call had returned.
FailedAfterInsert(p) ==
  log[p] = <<"llm", "llm.ok", "insert", "insert.ok", "llm", "llm.fail">>

\* C23: an event inserted during a conversational request is never undone by
\* the request: from the return of the insert call on the event is in the
\* calendar, and when the second create call then fails the caller receives
\* the server error while the event is still there.
C23_InsertNotUndone ==
  \A p \in Proc :
    (job[p].entry \in ConversationEntries)
    => /\ Inserted(p)
            => /\ SentToolResult(p).content.value.success
               /\ \E e \in calendar : e.id = InsertedId(p)
       /\ FailedAfterInsert(p)
            => /\ pc[p] = "done"
               /\ res[p].status = 500
               /\ res[p].kind = "error"
               /\ \E e \in calendar : e.id = InsertedId(p)

\* handleConversation answered 500 after book_appointment had succeeded, and
\* the event of the booking is in the calendar.
C23_Witness ==
  \E p \in Proc :
    /\ job[p].entry = "conversation"
    /\ job[p].toolUse.name = "book_appointment"
    /\ FailedAfterInsert(p)
    /\ res[p].status = 500
    /\ \E e \in calendar : e.id = InsertedId(p)

=============================================================================
